---- MODULE Spec2Model ----
(***************************************************************************)
(* HF_parser: private-fund weekly report dashboard.                        *)
(*                                                                         *)
(* The model has five parts, each with its own specification:              *)
(*   SpecStore        the fund_performance table and its unique key        *)
(*   SpecList         GET /funds (filter, sort, paginate) over a store     *)
(*   SpecCompareApi   POST /analytics/compare over a store                 *)
(*   SpecComparePage  the Compare page's selection state (Compare.tsx)     *)
(*   SpecQuery        fetches of the query client under its default options*)
(*                                                                         *)
(* Metrics are decimal fractions in the program; here they are integers    *)
(* (the fraction scaled), which keeps their order and their ties.          *)
(***************************************************************************)
EXTENDS Integers, Sequences, FiniteSets, TLC

VARIABLES
    funds,          \* funds: the fund codes of the product table
    store,          \* fund_performance: a set of rows
    nextId,         \* fund_performance.id AUTO_INCREMENT counter
    insertResult,   \* the last INSERT and its outcome (a sequence of 0 or 1 records)
    origin,         \* who sent the request being answered
    req,            \* the request being answered (a sequence of 0 or 1 records)
    resp,           \* its response (a sequence of 0 or 1 records)
    searchKeyword,  \* Compare page: the text of the search input
    selectedFunds,  \* Compare page: the selected funds, as their fund codes
    showDropdown,   \* Compare page: whether the dropdown is shown
    blurTimers,     \* Compare page: pending close timers set by handleInputBlur
    compareQuery,   \* Compare page: the fund codes the compare query sends, <<>> while disabled
    fetchStatus,    \* query client: per query, where its fetch stands
    failureCount,   \* query client: per query, failures of the current fetch
    httpSent,       \* query client: per query, HTTP requests sent by the current fetch
    queryData,      \* query client: per query, the data of its last successful fetch
    searchResults,  \* Compare page: the data of the dropdown's search query
    focused,        \* Compare page: the search input has the focus
    pressed,        \* Compare page: the dropdown entry under the pressed mouse button (0 or 1)
    openedAfterBlur, \* Compare page: the dropdown was opened since the input's last blur
    addResult,      \* Compare page: what the last step's addFund call did (0 or 1 outcomes)
    compareData,    \* Compare page: the data of the compare query
    radarOption,    \* Compare page: the radar chart option rendered from compareData
    distribution,   \* Dashboard: the items of the strategy distribution received
    pieData,        \* Dashboard: the slices StrategyPieChart draws
    keyword,        \* Search page: useState('')
    strategyId,     \* Search page: useState<number | undefined>()
    page,           \* Search page: useState(1)
    sortBy,         \* Search page: useState('annual_return')
    sortOrder,      \* Search page: useState('desc')
    serverPages,    \* Search page: total_pages the API answers, per filter
    cache,          \* Search page: the funds queries in the query cache, by key
    fetched,        \* Search page: the request the last step sent (0 or 1 records)
    clicked,        \* Search page: the column header the last step clicked (0 or 1 keys)
    visibleColumns, \* Search page: the visible column keys
    localStorage,   \* the browser's value under STORAGE_KEY (0 or 1 JSON texts)
    columnOp,       \* the column operation the last step performed (0 or 1 records)
    selectedStrategy,   \* Dashboard: useState<number | undefined>()
    selectedReportDate, \* Dashboard: useState<string | undefined>()
    reportDates,    \* Dashboard: data of the report-dates query (0 or 1 lists)
    dashPages,      \* Dashboard: total_pages the API answers, per strategy and date
    dashLoaded,     \* Dashboard: the funds query of the current key has its data
    observed        \* Dashboard: the queries the last step made the page request

storeVars == <<funds, store, nextId, insertResult>>
apiVars == <<origin, req, resp>>
clickVars == <<focused, pressed, openedAfterBlur>>
pageVars == <<searchKeyword, selectedFunds, showDropdown, blurTimers, compareQuery,
              searchResults, clickVars, addResult>>
queryVars == <<fetchStatus, failureCount, httpSent, queryData>>
chartVars == <<compareData, radarOption, distribution, pieData>>
searchVars == <<keyword, strategyId, page, sortBy, sortOrder, serverPages, cache, fetched,
                clicked>>
columnVars == <<visibleColumns, localStorage, columnOp>>
dashVars == <<selectedStrategy, selectedReportDate, reportDates, dashPages, dashLoaded,
              observed>>
uiVars == <<chartVars, searchVars, columnVars, dashVars>>
vars == <<storeVars, apiVars, pageVars, queryVars, uiVars>>

------------------------------------------------------------------------------
(* Bounds of the model *)

NumFunds == 3
NumDates == 2
MaxRows == 2
MaxPage == 2
MaxPageSize == 2
MaxTimers == 2
MaxCached == 2
MaxRadarFunds == 1
MaxStrategies == 11
MaxResults == 2
NumQueries == 3

------------------------------------------------------------------------------
(* Optional values: an absent parameter is <<>>, a given one is <<v>> *)

None == <<>>
Some(v) == <<v>>
IsSome(o) == o # <<>>
OrElse(o, d) == IF o = <<>> THEN d ELSE o[1]

Max(S) == CHOOSE x \in S : \A y \in S : y <= x
Min2(a, b) == IF a <= b THEN a ELSE b
Range(q) == { q[i] : i \in DOMAIN q }

------------------------------------------------------------------------------
(* The store *)

FundCodes == 1..NumFunds
ReportDates == 1..NumDates

\* Two of the metric columns of fund_performance, as sample snapshots.
Snapshots ==
    { [annual_return |-> 1, annual_sharpe |-> 0],
      [annual_return |-> 0, annual_sharpe |-> 1] }

Row(id, code, date, snap) ==
    [ id |-> id, fund_code |-> code, report_date |-> date,
      annual_return |-> snap.annual_return, annual_sharpe |-> snap.annual_sharpe ]

uk_fund_date_dropped(rows, code, date) == TRUE

\* UNIQUE KEY uk_fund_date (fund_code, report_date)
uk_fund_date(rows, code, date) ==
    \A r \in rows : ~(r.fund_code = code /\ r.report_date = date)

\* FOREIGN KEY (fund_code) REFERENCES funds(fund_code)
fk_performance_fund(codes, code) == code \in codes

\* INSERT INTO fund_performance: the foreign key on fund_code and the unique
\* key decide whether the row is stored; a violated constraint is an error and
\* the table is left as it was.
InsertPerformance(code, date, snap) ==
    /\ Cardinality(store) < MaxRows
    /\ IF fk_performance_fund(funds, code) /\ uk_fund_date(store, code, date)
         THEN /\ store' = store \cup {Row(nextId, code, date, snap)}
              /\ nextId' = nextId + 1
              /\ insertResult' =
                    Some([outcome |-> "ok", fund_code |-> code, report_date |-> date])
         ELSE /\ store' = store
              /\ nextId' = nextId
              /\ insertResult' =
                    Some([outcome |-> "rejected", fund_code |-> code, report_date |-> date])
    /\ UNCHANGED <<funds, apiVars, pageVars, queryVars, uiVars>>

ApiIdle == origin = "none" /\ req = None /\ resp = None

\* The Compare page after construction.
InitPage ==
    /\ searchKeyword = ""
    /\ selectedFunds = <<>>
    /\ showDropdown = FALSE
    /\ blurTimers = 0
    /\ compareQuery = <<>>
    /\ searchResults = None
    /\ focused = FALSE
    /\ pressed = None
    /\ openedAfterBlur = FALSE
    /\ addResult = None

QueryKeys == 1..NumQueries

\* The query client after construction: no query has fetched.
InitQueries ==
    /\ fetchStatus = [q \in QueryKeys |-> "idle"]
    /\ failureCount = [q \in QueryKeys |-> 0]
    /\ httpSent = [q \in QueryKeys |-> 0]
    /\ queryData = [q \in QueryKeys |-> None]

\* A sample of PERFORMANCE_COLUMNS, in the order of the configuration: the three
\* basic columns and three of the metric columns.
PERFORMANCE_COLUMNS ==
    << [key |-> "fund_name", category |-> "basic", sortable |-> FALSE, defaultVisible |-> TRUE],
       [key |-> "manager_name", category |-> "basic", sortable |-> FALSE, defaultVisible |-> TRUE],
       [key |-> "strategy_name", category |-> "basic", sortable |-> FALSE, defaultVisible |-> TRUE],
       [key |-> "weekly_return", category |-> "short_term", sortable |-> TRUE, defaultVisible |-> FALSE],
       [key |-> "annual_return", category |-> "inception", sortable |-> TRUE, defaultVisible |-> TRUE],
       [key |-> "annual_sharpe", category |-> "risk_adjusted", sortable |-> TRUE, defaultVisible |-> TRUE] >>

ColumnKeys == { PERFORMANCE_COLUMNS[i].key : i \in DOMAIN PERFORMANCE_COLUMNS }

\* PERFORMANCE_COLUMNS.map(col => col.key)
AllColumnKeys == [ i \in DOMAIN PERFORMANCE_COLUMNS |-> PERFORMANCE_COLUMNS[i].key ]

\* PERFORMANCE_COLUMNS.find(col => col.key === key); <<>> when there is none
FindColumn(key) ==
    IF key \in ColumnKeys
      THEN Some(CHOOSE c \in Range(PERFORMANCE_COLUMNS) : c.key = key)
      ELSE None

\* PERFORMANCE_COLUMNS.filter(col => col.defaultVisible).map(col => col.key)
getDefaultVisibleColumns ==
    LET IsDefault(c) == c.defaultVisible
        cols == SelectSeq(PERFORMANCE_COLUMNS, IsDefault)
    IN  [ i \in DOMAIN cols |-> cols[i].key ]

\* The filters of the Search page's query: keyword and strategy.
SearchKeywords == {"", "k"}
StrategyIds == {None, Some(1)}
Filters == SearchKeywords \X StrategyIds

\* The charts before any data has arrived.
InitCharts ==
    /\ compareData = None
    /\ radarOption = None
    /\ distribution = None
    /\ pieData = None

\* The Search page's state as constructed, before it is mounted.
InitSearch ==
    /\ keyword = ""
    /\ strategyId = None
    /\ page = 1
    /\ sortBy = "annual_return"
    /\ sortOrder = "desc"
    /\ serverPages = [f \in Filters |-> 0]
    /\ cache = <<>>
    /\ fetched = None
    /\ clicked = None

\* JSON.stringify of a string array, as its tokens: [ "a" , "b" ]
JSONstringify(columns) ==
    [ i \in 1..(IF Len(columns) = 0 THEN 2 ELSE 2 * Len(columns) + 1) |->
        IF i = 1 THEN "["
        ELSE IF i = (IF Len(columns) = 0 THEN 2 ELSE 2 * Len(columns) + 1) THEN "]"
        ELSE IF i % 2 = 0 THEN columns[i \div 2]
        ELSE "," ]

\* JSON.parse of such a text: the elements between the brackets and commas
JSONparse(text) ==
    [ i \in 1..((Len(text) - 1) \div 2) |-> text[2 * i] ]

\* Not run: the column list is never written, the storage stays empty.
SaveEffectSkipped(columns) == None

\* useEffect(() => localStorage.setItem(STORAGE_KEY, JSON.stringify(visibleColumns)))
SaveEffect(columns) == Some(JSONstringify(columns))

\* useState(() => stored ? JSON.parse(stored) : getDefaultVisibleColumns())
StoredColumns ==
    IF localStorage = None \/ Len(localStorage[1]) = 0
      THEN getDefaultVisibleColumns
      ELSE JSONparse(localStorage[1])

\* A first visit, mounted: the defaults are shown and have been saved.
InitColumns ==
    /\ visibleColumns = getDefaultVisibleColumns
    /\ localStorage = SaveEffect(getDefaultVisibleColumns)
    /\ columnOp = None

\* The Dashboard's state as constructed, before it is mounted.
InitDash ==
    /\ selectedStrategy = None
    /\ selectedReportDate = None
    /\ reportDates = None
    /\ dashPages = <<>>
    /\ dashLoaded = FALSE
    /\ observed = {}

InitUi == InitCharts /\ InitSearch /\ InitColumns /\ InitDash

InitStore ==
    /\ funds = FundCodes
    /\ store = {}
    /\ nextId = 1
    /\ insertResult = None
    /\ ApiIdle
    /\ InitPage
    /\ InitQueries
    /\ InitUi

\* The import step offers any row, also one of a fund that is not in funds.
NextStore ==
    \E code \in 1..(NumFunds + 1), date \in ReportDates, snap \in Snapshots :
        InsertPerformance(code, date, snap)

SpecStore == InitStore /\ [][NextStore]_vars

SamePair(r1, r2) == r1.fund_code = r2.fund_code /\ r1.report_date = r2.report_date

\* C8: the store never holds two performance rows with the same (fund_code,
\* report_date); an insert whose pair is already stored is rejected and leaves the
\* store as it was.
C8_UniquePair ==
    [][ /\ \A r1, r2 \in store' : SamePair(r1, r2) => r1 = r2
        /\ \A code \in FundCodes, date \in ReportDates :
             ( /\ \E r \in store : r.fund_code = code /\ r.report_date = date
               /\ insertResult' # None
               /\ insertResult'[1].fund_code = code
               /\ insertResult'[1].report_date = date ) =>
                 /\ insertResult'[1].outcome = "rejected"
                 /\ store' = store ]_vars

\* C8 witness: a second row of a stored (fund_code, report_date) was offered and
\* refused, and the pair is stored exactly once.
C8_Witness ==
    /\ insertResult # None
    /\ insertResult[1].outcome = "rejected"
    /\ Cardinality({ r \in store : r.fund_code = insertResult[1].fund_code
                                   /\ r.report_date = insertResult[1].report_date }) = 1

------------------------------------------------------------------------------
(* GET /funds *)

\* The sort-field allow-list (two of its fields, the ones the rows carry).
SortFields == {"annual_return", "annual_sharpe"}

DefaultPage == 1
DefaultPageSize == 20
DefaultSortBy == "annual_return"
DefaultOrder == "desc"
MinPageSize == 1
MaxPageSizeAllowed == 100

\* Parameter defaulting of the boundary layer.
ApplyDefaults(r) ==
    [ r EXCEPT !.sort_by = Some(OrElse(r.sort_by, DefaultSortBy)),
               !.order = Some(OrElse(r.order, DefaultOrder)),
               !.page = Some(OrElse(r.page, DefaultPage)),
               !.page_size = Some(OrElse(r.page_size, DefaultPageSize)) ]

ApplyDefaultsAscending(r) ==
    [ r EXCEPT !.sort_by = Some(OrElse(r.sort_by, DefaultSortBy)),
               !.order = Some(OrElse(r.order, "asc")),
               !.page = Some(OrElse(r.page, DefaultPage)),
               !.page_size = Some(OrElse(r.page_size, DefaultPageSize)) ]

AnySortField(field) == TRUE

\* Validation at the boundary; r has its defaults applied.
ValidSortField(field) == field \in SortFields

ValidListRequest(r) ==
    /\ ValidSortField(r.sort_by[1])
    /\ r.order[1] \in {"asc", "desc"}
    /\ r.page[1] >= 1
    /\ r.page_size[1] >= MinPageSize
    /\ r.page_size[1] <= MaxPageSizeAllowed

\* The most recent report date that has a performance row.
LatestReportDate(rows) ==
    IF rows = {} THEN None ELSE Some(Max({ x.report_date : x \in rows }))

MatchingRowsOrLatest(rows, r) ==
    LET asked == IF IsSome(r.report_date)
                   THEN { x \in rows : x.report_date = r.report_date[1] } ELSE {}
        dated == IF asked # {} \/ rows = {}
                   THEN asked
                   ELSE { x \in rows : x.report_date = LatestReportDate(rows)[1] }
    IN  { x \in dated :
            IsSome(r.min_annual_return) => x.annual_return >= r.min_annual_return[1] }

\* WHERE report_date = :date AND <filters>
MatchingRows(rows, r) ==
    LET date == IF IsSome(r.report_date) THEN r.report_date ELSE LatestReportDate(rows)
    IN  { x \in rows :
            /\ IsSome(date) /\ x.report_date = date[1]
            /\ (IsSome(r.min_annual_return) => x.annual_return >= r.min_annual_return[1]) }

SortKey(x, field) == IF field \in SortFields THEN x[field] ELSE x[DefaultSortBy]

InOrderIgnoringDirection(a, b, order) == a >= b

InOrder(a, b, order) == IF order = "desc" THEN a >= b ELSE a <= b

\* ORDER BY :sort_by :order, with no tiebreaker: every arrangement of the rows that
\* is ordered on the sort column is a possible result.
Orderings(rows, field, order) ==
    LET n == Cardinality(rows)
    IN  { q \in [1..n -> rows] :
            /\ \A i, j \in 1..n : i # j => q[i] # q[j]
            /\ \A i \in 1..n : i < n => InOrder(SortKey(q[i], field), SortKey(q[i + 1], field), order) }

CeilDiv(a, b) == (a + b - 1) \div b

FloorDiv(a, b) == a \div b

TotalPages(total, size) == CeilDiv(total, size)

\* OFFSET (page - 1) * page_size LIMIT page_size
PageOf(q, pageNo, size) == SubSeq(q, (pageNo - 1) * size + 1, Min2(pageNo * size, Len(q)))

PageOfOverlapping(q, pageNo, size) == SubSeq(q, (pageNo - 1) * size + 1, Min2(pageNo * size + 1, Len(q)))

ValidationError ==
    [ status |-> "validation_error", items |-> <<>>, total |-> 0,
      page |-> 0, page_size |-> 0, total_pages |-> 0 ]

\* Every response the endpoint can give to request r0 over the rows.
ListFundsResponses(rows, r0) ==
    LET r == ApplyDefaults(r0)
    IN  IF ~ValidListRequest(r) THEN {ValidationError}
        ELSE LET m == MatchingRows(rows, r)
             IN  { [ status |-> "ok",
                     items |-> PageOf(q, r.page[1], r.page_size[1]),
                     total |-> Cardinality(m),
                     page |-> r.page[1],
                     page_size |-> r.page_size[1],
                     total_pages |-> TotalPages(Cardinality(m), r.page_size[1]) ]
                   : q \in Orderings(m, r.sort_by[1], r.order[1]) }

ListRequest(date, minReturn, sortField, order, pageNo, size) ==
    [ report_date |-> date, min_annual_return |-> minReturn,
      sort_by |-> sortField, order |-> order, page |-> pageNo, page_size |-> size ]

Opt(S) == {None} \cup { Some(v) : v \in S }

\* The requests a caller of the API sends in the model.
ListRequests ==
    { ListRequest(date, minReturn, sortField, order, pageNo, size) :
        date \in Opt(ReportDates), minReturn \in Opt({1}),
        sortField \in Opt(SortFields \cup {"fund_name"}), order \in Opt({"asc", "desc"}),
        pageNo \in Opt(1..MaxPage), size \in Opt(0..MaxPageSize) }

\* GET /funds, sent by any caller of the API.
ListFunds(r) ==
    /\ ApiIdle
    /\ origin' = "api"
    /\ req' = Some(r)
    /\ \E a \in ListFundsResponses(store, r) : resp' = Some(a)
    /\ UNCHANGED <<storeVars, pageVars, queryVars, uiVars>>

\* The exchange is over; the API holds nothing of it.
Reply ==
    /\ ~ApiIdle
    /\ origin' = "none"
    /\ req' = None
    /\ resp' = None
    /\ UNCHANGED <<storeVars, pageVars, queryVars, uiVars>>

\* GET /analytics/report-dates: the available report dates, most recent first.
ReportDatesDesc(rows) ==
    LET dates == { x.report_date : x \in rows }
        n == Cardinality(dates)
    IN  CHOOSE q \in [1..n -> dates] : \A i, j \in 1..n : i < j => q[i] > q[j]

\* Search page: the state after construction and the page size.
pageSize == 20

SearchInitAscending ==
    [ keyword |-> None, strategyId |-> None, page |-> 1,
      sortBy |-> "annual_return", sortOrder |-> "asc" ]

SearchInit ==
    [ keyword |-> None, strategyId |-> None, page |-> 1,
      sortBy |-> "annual_return", sortOrder |-> "desc" ]

\* Dashboard page: the state after construction (no report date selected yet).
DashboardInit ==
    [ selectedStrategy |-> None, selectedReportDate |-> None, page |-> 1,
      sortBy |-> "annual_return", sortOrder |-> "desc" ]

\* The parameters of the Search page's funds query; keyword '' and an undefined
\* strategy are not sent.
SearchQuery(st) ==
    ListRequest(None, None, Some(st.sortBy), Some(st.sortOrder), Some(st.page), Some(pageSize))

\* The parameters of the Dashboard's funds query.
DashboardQuery(st) ==
    ListRequest(st.selectedReportDate, None, Some(st.sortBy), Some(st.sortOrder),
                Some(st.page), Some(pageSize))

\* The Search page mounts: its funds query runs with the initial state.
SearchFirstFetch ==
    /\ ApiIdle
    /\ origin' = "search"
    /\ req' = Some(SearchQuery(SearchInit))
    /\ \E a \in ListFundsResponses(store, SearchQuery(SearchInit)) : resp' = Some(a)
    /\ UNCHANGED <<storeVars, pageVars, queryVars, uiVars>>

\* The Dashboard mounts: once the report dates are loaded and not empty the first
\* of them is selected, and only then is the funds query enabled.
DashboardFirstFetch ==
    /\ ApiIdle
    /\ store # {}
    /\ LET st == [DashboardInit EXCEPT !.selectedReportDate = Some(ReportDatesDesc(store)[1])]
       IN  /\ origin' = "dashboard"
           /\ req' = Some(DashboardQuery(st))
           /\ \E a \in ListFundsResponses(store, DashboardQuery(st)) : resp' = Some(a)
    /\ UNCHANGED <<storeVars, pageVars, queryVars, uiVars>>

\* A store as the import step leaves it: at most one row per (fund, date).
StoreOf(pairs, snaps) ==
    { Row(NumDates * (p[1] - 1) + p[2], p[1], p[2], snaps[p]) : p \in pairs }

\* The funds that have rows: a store of at most MaxRows rows has rows of at most
\* MaxRows funds, and nothing in the API depends on which funds they are.
RowFunds == { f \in FundCodes : f <= MaxRows }

InitList ==
    /\ funds = FundCodes
    /\ \E pairs \in SUBSET (RowFunds \X ReportDates) :
         /\ Cardinality(pairs) <= MaxRows
         /\ \E snaps \in [pairs -> Snapshots] : store = StoreOf(pairs, snaps)
    /\ nextId = NumFunds * NumDates + 1
    /\ insertResult = None
    /\ ApiIdle
    /\ InitPage
    /\ InitQueries
    /\ InitUi

NextList ==
    \/ ApiIdle /\ \E r \in ListRequests : ListFunds(r)
    \/ SearchFirstFetch
    \/ DashboardFirstFetch
    \/ Reply

SpecList == InitList /\ [][NextList]_vars

------------------------------------------------------------------------------
(* Properties of GET /funds *)

Answered == req # None /\ resp # None
Ok == Answered /\ resp[1].status = "ok"

Keys(items, field) == [ i \in 1..Len(items) |-> items[i][field] ]
Reverse(q) == [ i \in 1..Len(q) |-> q[Len(q) + 1 - i] ]

\* C1: a paginated list response has total_pages = ceil(total / page_size) and at
\* most page_size items; with total = 0 the page is empty and well-formed.
C1_PageCount ==
    Ok =>
        LET a == resp[1]
        IN  /\ a.page_size >= 1
            /\ a.total_pages * a.page_size >= a.total
            /\ (a.total_pages - 1) * a.page_size < a.total \/ a.total = 0
            /\ a.total = 0 => a.total_pages = 0 /\ a.items = <<>>
            /\ Len(a.items) <= a.page_size
            /\ Len(a.items) <= a.total

\* C1 witness: one matching row and two rows per page make one page, not zero.
C1_Witness ==
    /\ Ok /\ Cardinality(store) = 2
    /\ resp[1].total = 1 /\ resp[1].page_size = 2 /\ resp[1].total_pages = 1
    /\ resp[1].page = 1 /\ Len(resp[1].items) = 1

\* C5: a list request whose sort_by is not in the allow-list gets a validation
\* error and no page of results.
C5_UnknownSortRejected ==
    (Answered /\ IsSome(req[1].sort_by) /\ req[1].sort_by[1] \notin SortFields) =>
        /\ resp[1].status = "validation_error"
        /\ resp[1].items = <<>>

\* C5 witness: sort_by=fund_name was sent over a store that has rows, and was refused.
C5_Witness ==
    /\ Answered /\ req[1].sort_by = Some("fund_name") /\ store # {}
    /\ req[1].page_size = None
    /\ resp[1].status = "validation_error"

ValidParams(r) ==
    /\ IsSome(r.sort_by) => r.sort_by[1] \in SortFields
    /\ IsSome(r.page_size) => r.page_size[1] \in MinPageSize..MaxPageSizeAllowed
    /\ IsSome(r.page) => r.page[1] >= 1

NoRowFor(r) ==
    \/ IsSome(r.report_date) /\ \A x \in store : x.report_date # r.report_date[1]
    \/ IsSome(r.report_date) /\ IsSome(r.min_annual_return)
         /\ \A x \in store : x.report_date = r.report_date[1]
                                => x.annual_return < r.min_annual_return[1]
    \/ store = {}

\* C6: a valid list request whose report_date has no row in the store, or whose
\* filters match no row, gets an empty well-formed page and never an error.
C6_EmptyPage ==
    (Answered /\ ValidParams(req[1]) /\ NoRowFor(req[1])) =>
        /\ resp[1].status = "ok"
        /\ resp[1].items = <<>>
        /\ resp[1].total = 0
        /\ resp[1].total_pages = 0

\* C6 witness: the store has rows, none of them for the requested date.
C6_Witness ==
    /\ Answered /\ store # {} /\ IsSome(req[1].report_date)
    /\ \A x \in store : x.report_date # req[1].report_date[1]
    /\ resp[1].status = "ok" /\ resp[1].total = 0

SortFieldOf(r) == OrElse(r.sort_by, "annual_return")
WholeResult(a) == a.page = 1 /\ a.total <= a.page_size

\* C7: for an allow-listed field and fixed filters, order=desc is non-increasing
\* in the field, and order=asc is the reverse of it, up to the order of rows with
\* equal values.
C7_DescAscReverse ==
    Ok =>
        LET r == req[1]
            a == resp[1]
            k == Keys(a.items, SortFieldOf(r))
        IN  /\ r.order = Some("desc") =>
                  \A i \in 1..(Len(k) - 1) : k[i] >= k[i + 1]
            /\ (r.order = Some("asc") /\ WholeResult(a)) =>
                  \A d \in ListFundsResponses(store, [r EXCEPT !.order = Some("desc")]) :
                      /\ Keys(d.items, SortFieldOf(r)) = Reverse(k)
                      /\ { x.fund_code : x \in Range(d.items) } = { x.fund_code : x \in Range(a.items) }

\* C7 witness: an ascending result of two rows with different values.
C7_Witness ==
    /\ Ok /\ req[1].order = Some("asc") /\ req[1].sort_by = Some("annual_sharpe")
    /\ WholeResult(resp[1]) /\ Len(resp[1].items) = 2
    /\ resp[1].items[1].annual_sharpe < resp[1].items[2].annual_sharpe

OmitsPaging(r) == r.page = None /\ r.page_size = None /\ r.sort_by = None /\ r.order = None

Explicit(r) ==
    [ r EXCEPT !.page = Some(1), !.page_size = Some(20),
               !.sort_by = Some("annual_return"), !.order = Some("desc") ]

Omitting(r) ==
    [ r EXCEPT !.page = None, !.page_size = None, !.sort_by = None, !.order = None ]

\* C9: a request that omits page, page_size, sort_by and order is answered as the
\* same request with page=1, page_size=20, sort_by=annual_return, order=desc; the
\* first fetch of the Search page and of the Dashboard carries exactly these values.
C9_Defaults ==
    Answered =>
        /\ (origin = "api" /\ OmitsPaging(req[1])) =>
              resp[1] \in ListFundsResponses(store, Explicit(req[1]))
        /\ origin \in {"search", "dashboard"} =>
              /\ req[1] = Explicit(req[1])
              /\ resp[1] \in ListFundsResponses(store, Omitting(req[1]))

\* C9 witness: the Search page's first fetch, answered with rows in two orders of value.
C9_Witness ==
    /\ Ok /\ origin = "search"
    /\ Len(resp[1].items) = 2
    /\ resp[1].items[1].annual_return > resp[1].items[2].annual_return

\* C14: a list request against an unchanged store has one possible answer: its items
\* come in the same order every time, rows that tie on the sort column included.
C14_DeterministicOrder ==
    Ok => \A a \in ListFundsResponses(store, req[1]) : a.items = resp[1].items

------------------------------------------------------------------------------
(* POST /analytics/compare *)

MinCompare == 2
MaxCompare == 5

\* The funds table of the comparison runs: one fund more than can be compared.
CompareFundCodes == 1..(MaxCompare + 1)

ValidCompareSizeFromOne(n) == n >= 1 /\ n <= MaxCompare

ValidCompareSize(n) == n >= MinCompare /\ n <= MaxCompare

InRange(date, start, end) ==
    /\ IsSome(start) => date >= start[1]
    /\ IsSome(end) => date <= end[1]

\* The fund's rows within the range, by report date.
PerformancesOf(rows, code, start, end) ==
    LET m == { x \in rows : x.fund_code = code /\ InRange(x.report_date, start, end) }
        n == Cardinality(m)
    IN  IF n = 0 THEN <<>>
        ELSE CHOOSE q \in [1..n -> m] :
                 \A i, j \in 1..n : i < j => q[i].report_date < q[j].report_date

\* The most recent snapshot of a series, null for an empty series.
LatestOf(series) == IF series = <<>> THEN None ELSE Some(series[Len(series)])

CompareEntry(rows, code, start, end) ==
    LET series == PerformancesOf(rows, code, start, end)
    IN  [ fund_code |-> code, performances |-> series, latest |-> LatestOf(series) ]

CompareEntriesWithData(rows, codes, start, end) ==
    LET HasData(e) == e.performances # <<>>
    IN  SelectSeq([ i \in 1..Len(codes) |-> CompareEntry(rows, codes[i], start, end) ],
                  HasData)

\* One entry per requested code, in the order requested.
CompareEntries(rows, codes, start, end) ==
    [ i \in 1..Len(codes) |-> CompareEntry(rows, codes[i], start, end) ]

CompareResponse(rows, c) ==
    IF ~ValidCompareSize(Len(c.fund_codes))
      THEN [ status |-> "validation_error", funds |-> <<>> ]
      ELSE [ status |-> "ok",
             funds |-> CompareEntries(rows, c.fund_codes, c.start_date, c.end_date) ]

\* A set of codes as the ascending sequence of its members.
Ascending(S) ==
    LET n == Cardinality(S)
    IN  CHOOSE q \in [1..n -> S] : \A i, j \in 1..n : i < j => q[i] < q[j]

\* The requests a caller of the API sends in the model: any set of known fund codes,
\* any range of dates.
CompareRequests ==
    { [ fund_codes |-> Ascending(S), start_date |-> start, end_date |-> end ] :
        S \in SUBSET CompareFundCodes, start \in Opt(ReportDates), end \in Opt(ReportDates) }

CompareFundsApiFilling(c) ==
    /\ ApiIdle
    /\ origin' = "compare"
    /\ req' = Some(c)
    /\ resp' = Some(CompareResponse(store, c))
    /\ store' = store \cup
                  { Row(nextId, c.fund_codes[i], 1, [annual_return |-> 0, annual_sharpe |-> 0]) :
                      i \in { j \in DOMAIN c.fund_codes :
                                \A x \in store : x.fund_code # c.fund_codes[j] } }
    /\ UNCHANGED <<funds, nextId, insertResult, pageVars, queryVars, uiVars>>

\* POST /analytics/compare
CompareFundsApi(c) ==
    /\ ApiIdle
    /\ origin' = "compare"
    /\ req' = Some(c)
    /\ resp' = Some(CompareResponse(store, c))
    /\ UNCHANGED <<storeVars, pageVars, queryVars, uiVars>>

InitCompareApi ==
    /\ funds = CompareFundCodes
    /\ \E pairs \in SUBSET (CompareFundCodes \X ReportDates) :
         /\ Cardinality(pairs) <= MaxRows
         /\ store = StoreOf(pairs, [p \in pairs |-> [annual_return |-> 1, annual_sharpe |-> 0]])
    /\ nextId = (MaxCompare + 1) * NumDates + 1
    /\ insertResult = None
    /\ ApiIdle
    /\ InitPage
    /\ InitQueries
    /\ InitUi

NextCompareApi ==
    \/ ApiIdle /\ \E c \in CompareRequests : CompareFundsApi(c)
    \/ Reply

SpecCompareApi == InitCompareApi /\ [][NextCompareApi]_vars

RowsInRange(code, c) ==
    { x \in store : x.fund_code = code /\ InRange(x.report_date, c.start_date, c.end_date) }

\* C2: a comparison of fewer than 2 or more than 5 fund codes is a validation error
\* and returns no comparison result.
C2_SizeRejected ==
    (Answered /\ (Len(req[1].fund_codes) < 2 \/ Len(req[1].fund_codes) > 5)) =>
        /\ resp[1].status = "validation_error"
        /\ resp[1].funds = <<>>

\* C2 witness: six codes were sent over a store that has rows, and were refused.
C2_Witness ==
    /\ Answered /\ Len(req[1].fund_codes) = 6 /\ Cardinality(store) = MaxRows
    /\ resp[1].status = "validation_error"

\* C3: a comparison of 2 to 5 valid codes returns one entry per requested code; a
\* fund with no row in the range is present with an empty series and latest = null,
\* and latest is non-null only if the fund has a row.
C3_OneEntryPerCode ==
    (Answered /\ Len(req[1].fund_codes) \in 2..5) =>
        LET c == req[1]
            a == resp[1]
        IN  /\ a.status = "ok"
            /\ Len(a.funds) = Len(c.fund_codes)
            /\ \A i \in 1..Len(c.fund_codes) :
                 i <= Len(a.funds) =>
                   LET e == a.funds[i]
                   IN  /\ e.fund_code = c.fund_codes[i]
                       /\ Range(e.performances) = RowsInRange(e.fund_code, c)
                       /\ RowsInRange(e.fund_code, c) = {} =>
                              e.performances = <<>> /\ e.latest = None
                       /\ e.latest # None =>
                              /\ e.latest[1] \in RowsInRange(e.fund_code, c)
                              /\ \A x \in RowsInRange(e.fund_code, c) :
                                     x.report_date <= e.latest[1].report_date

\* C3 witness: five codes compared; the first has rows in the range, the last has rows
\* but none in the range.
C3_Witness ==
    /\ Answered /\ Len(req[1].fund_codes) = 5 /\ resp[1].status = "ok"
    /\ Len(resp[1].funds) = 5
    /\ resp[1].funds[1].latest # None
    /\ resp[1].funds[5].latest = None /\ resp[1].funds[5].performances = <<>>
    /\ \E x \in store : x.fund_code = req[1].fund_codes[5]

------------------------------------------------------------------------------
(* The Compare page (Compare.tsx) *)

MaxSelectedFunds == 5
MinFundsToCompare == 2

\* The funds the dropdown can offer: one more than the selection can hold.
PageFunds == 1..(MaxSelectedFunds + 1)
Keywords == {"", "k"}

NoDuplicates(q) == \A i, j \in DOMAIN q : q[i] = q[j] => i = j

CanAddFundUnlimited(selected, fund) == ~(\E i \in DOMAIN selected : selected[i] = fund)

\* addFund's condition: selectedFunds.length < 5 && !selectedFunds.find(...)
CanAddFund(selected, fund) ==
    /\ Len(selected) < MaxSelectedFunds
    /\ ~(\E i \in DOMAIN selected : selected[i] = fund)

\* selectedFunds.filter(f => f.fund_code !== fundCode)
WithoutFund(selected, fundCode) ==
    LET Keep(c) == c # fundCode IN SelectSeq(selected, Keep)

\* enabled: selectedFunds.length >= 2
CompareEnabled(selected) == Len(selected) >= MinFundsToCompare

\* The compare query of a render: compareFunds(selectedFunds.map(f => f.fund_code))
\* when enabled, no request otherwise.
CompareQueryOf(selected) == IF CompareEnabled(selected) THEN selected ELSE <<>>

\* The answers of GET /funds?keyword=&page_size=10 in the sample: the funds of
\* 1..MaxResults that match, in the order of the API.
SearchResultLists ==
    { [ i \in 1..Cardinality(S) |->
          CHOOSE f \in S : Cardinality({ g \in S : g < f }) = i - 1 ] :
        S \in SUBSET (1..MaxResults) }

\* data of the query ['funds-compare-search', searchKeyword] after the keyword is
\* set: kept for the same key, undefined for another key until its answer arrives.
ResultsForKey(text) == IF text = searchKeyword THEN searchResults ELSE None

DropdownEntriesUnfiltered(items, selected) == items

\* searchResults.items.filter(fund => !selectedFunds.find(f => f.fund_code === fund.fund_code))
DropdownEntries(items, selected) ==
    LET NotSelected(fund) == ~(\E i \in DOMAIN selected : selected[i] = fund)
    IN  SelectSeq(items, NotSelected)

\* The search input is rendered only while selectedFunds.length < 5.
InputRendered == Len(selectedFunds) < MaxSelectedFunds

addFundAlwaysClearing(fund) ==
    /\ selectedFunds' = IF CanAddFund(selectedFunds, fund)
                           THEN Append(selectedFunds, fund) ELSE selectedFunds
    /\ searchKeyword' = ""
    /\ showDropdown' = FALSE
    /\ compareQuery' = CompareQueryOf(selectedFunds')
    /\ searchResults' = ResultsForKey(searchKeyword')
    /\ UNCHANGED <<blurTimers, storeVars, apiVars, queryVars, uiVars>>

\* addFund(fund); the next render re-evaluates the compare query.
addFund(fund) ==
    /\ IF CanAddFund(selectedFunds, fund)
         THEN /\ selectedFunds' = Append(selectedFunds, fund)
              /\ searchKeyword' = ""
              /\ showDropdown' = FALSE
         ELSE UNCHANGED <<selectedFunds, searchKeyword, showDropdown>>
    /\ compareQuery' = CompareQueryOf(selectedFunds')
    /\ searchResults' = ResultsForKey(searchKeyword')
    /\ UNCHANGED <<blurTimers, storeVars, apiVars, queryVars, uiVars>>

\* removeFund(fundCode), from the X button of a selected fund.
removeFund(fundCode) ==
    /\ \E i \in DOMAIN selectedFunds : selectedFunds[i] = fundCode
    /\ selectedFunds' = WithoutFund(selectedFunds, fundCode)
    /\ compareQuery' = CompareQueryOf(selectedFunds')
    /\ UNCHANGED <<searchKeyword, showDropdown, blurTimers, searchResults>>
    /\ UNCHANGED <<storeVars, apiVars, queryVars, uiVars>>

\* onChange of the search input.
InputChange(text) ==
    /\ InputRendered
    /\ searchKeyword' = text
    /\ searchResults' = ResultsForKey(text)
    /\ UNCHANGED <<selectedFunds, showDropdown, blurTimers, compareQuery,
                   storeVars, apiVars, queryVars, uiVars>>

handleInputFocus ==
    /\ InputRendered
    /\ showDropdown' = TRUE
    /\ UNCHANGED <<searchKeyword, selectedFunds, blurTimers, compareQuery, searchResults,
                   storeVars, apiVars, queryVars, uiVars>>

\* handleInputBlur: setTimeout(() => setShowDropdown(false), 200)
handleInputBlur ==
    /\ InputRendered
    /\ blurTimers < MaxTimers
    /\ blurTimers' = blurTimers + 1
    /\ UNCHANGED <<searchKeyword, selectedFunds, showDropdown, compareQuery, searchResults,
                   storeVars, apiVars, queryVars, uiVars>>

\* A timer set by handleInputBlur fires.
BlurTimeout ==
    /\ blurTimers > 0
    /\ blurTimers' = blurTimers - 1
    /\ showDropdown' = FALSE
    /\ UNCHANGED <<searchKeyword, selectedFunds, compareQuery, searchResults,
                   storeVars, apiVars, queryVars, uiVars>>

\* The search query (enabled: showDropdown) answers for the current keyword.
SearchResultsArrive ==
    /\ showDropdown
    /\ searchResults = None
    /\ \E items \in SearchResultLists : searchResults' = Some([ items |-> items ])
    /\ UNCHANGED <<searchKeyword, selectedFunds, showDropdown, blurTimers, compareQuery,
                   storeVars, apiVars, queryVars, uiVars>>

\* The funds the dropdown offers: none while it is hidden, while the search is
\* loading, or when nothing matched.
Offered ==
    IF InputRendered /\ showDropdown /\ searchResults # None
         /\ Len(searchResults[1].items) > 0
      THEN DropdownEntries(searchResults[1].items, selectedFunds)
      ELSE <<>>

InitComparePage ==
    /\ funds = PageFunds
    /\ store = {}
    /\ nextId = 1
    /\ insertResult = None
    /\ ApiIdle
    /\ InitPage
    /\ InitQueries
    /\ InitUi

\* No addFund call in this step.
NoAdd == addResult' = None /\ UNCHANGED clickVars

\* addFund is called with any fund, whatever the page shows.
CallAddFund ==
    /\ \E fund \in PageFunds : addFund(fund)
    /\ addResult' = Some(IF selectedFunds' = selectedFunds THEN "ignored" ELSE "accepted")
    /\ UNCHANGED clickVars

NextComparePage ==
    \/ CallAddFund
    \/ (\E fundCode \in PageFunds : removeFund(fundCode)) /\ NoAdd
    \/ (\E text \in Keywords : InputChange(text)) /\ NoAdd
    \/ handleInputFocus /\ NoAdd
    \/ handleInputBlur /\ NoAdd
    \/ BlurTimeout /\ NoAdd
    \/ SearchResultsArrive /\ NoAdd

SpecComparePage == InitComparePage /\ [][NextComparePage]_vars

\* C4: whatever funds are added and removed, the selection holds at most 5 funds and
\* no fund_code twice, the compare query is enabled exactly while at least 2 funds
\* are selected, and the request it sends carries the 2 to 5 distinct selected codes.
C4_CompareRequestCodes ==
    /\ Len(selectedFunds) <= 5
    /\ NoDuplicates(selectedFunds)
    /\ (compareQuery # <<>>) <=> (Len(selectedFunds) >= 2)
    /\ compareQuery # <<>> =>
         /\ Len(compareQuery) \in 2..5
         /\ NoDuplicates(compareQuery)
         /\ compareQuery = selectedFunds

\* C4 witness: five funds are selected and compared, the selection is full and in
\* the order the funds were added.
C4_Witness ==
    /\ Len(selectedFunds) = 5
    /\ compareQuery = selectedFunds
    /\ selectedFunds[1] = 6
    /\ selectedFunds[5] = 1

------------------------------------------------------------------------------
(* The query client (App.tsx): every useQuery fetch runs under its defaults *)

retryTwice == 1 + 1

\* defaultOptions.queries.retry
retry == 1

\* What a successful fetch can return, as the number of items in the result.
ResultSizes == {0, 1}

\* The query starts a fetch: the first HTTP request goes out. Data of an earlier
\* fetch of the same query is kept.
StartFetch(q) ==
    /\ fetchStatus[q] \in {"idle", "success", "error"}
    /\ fetchStatus' = [fetchStatus EXCEPT ![q] = "fetching"]
    /\ failureCount' = [failureCount EXCEPT ![q] = 0]
    /\ httpSent' = [httpSent EXCEPT ![q] = 1]
    /\ UNCHANGED <<queryData, storeVars, apiVars, pageVars, uiVars>>

RequestSucceeds(q) ==
    /\ fetchStatus[q] = "fetching"
    /\ fetchStatus' = [fetchStatus EXCEPT ![q] = "success"]
    /\ \E n \in ResultSizes : queryData' = [queryData EXCEPT ![q] = Some(n)]
    /\ UNCHANGED <<failureCount, httpSent, storeVars, apiVars, pageVars, uiVars>>

\* The request fails: with a numeric retry option the fetch is retried while
\* failureCount < retry, and the error is surfaced otherwise.
RequestFails(q) ==
    /\ fetchStatus[q] = "fetching"
    /\ IF failureCount[q] < retry
         THEN /\ fetchStatus' = [fetchStatus EXCEPT ![q] = "retrying"]
              /\ failureCount' = [failureCount EXCEPT ![q] = failureCount[q] + 1]
         ELSE /\ fetchStatus' = [fetchStatus EXCEPT ![q] = "error"]
              /\ failureCount' = failureCount
    /\ UNCHANGED <<httpSent, queryData, storeVars, apiVars, pageVars, uiVars>>

\* The retry delay has passed: the request is sent again.
RetryRequest(q) ==
    /\ fetchStatus[q] = "retrying"
    /\ fetchStatus' = [fetchStatus EXCEPT ![q] = "fetching"]
    /\ httpSent' = [httpSent EXCEPT ![q] = httpSent[q] + 1]
    /\ UNCHANGED <<failureCount, queryData, storeVars, apiVars, pageVars, uiVars>>

InitQuery ==
    /\ funds = FundCodes
    /\ store = {}
    /\ nextId = 1
    /\ insertResult = None
    /\ ApiIdle
    /\ InitPage
    /\ InitQueries
    /\ InitUi

NextQuery ==
    \E q \in QueryKeys :
        \/ StartFetch(q)
        \/ RequestSucceeds(q)
        \/ RequestFails(q)
        \/ RetryRequest(q)

SpecQuery == InitQuery /\ [][NextQuery]_vars

\* C10 as stated: a failed request is never retried, so a fetch sends at most one
\* HTTP request and a failure is surfaced after that one request.
C10_NotRetried ==
    \A q \in QueryKeys :
        /\ httpSent[q] <= 1
        /\ fetchStatus[q] # "retrying"

\* C10, amended: a failed request is retried automatically once; a fetch sends at
\* most two HTTP requests, and an error is surfaced only after the retry failed too.
C10_RetriedOnce ==
    \A q \in QueryKeys :
        /\ httpSent[q] <= 2
        /\ failureCount[q] <= 1
        /\ fetchStatus[q] = "retrying" => httpSent[q] = 1 /\ failureCount[q] = 1
        /\ fetchStatus[q] = "error" => httpSent[q] = 2 /\ failureCount[q] = 1

\* C10 witness: a fetch whose request and whose one retry both failed.
C10_Witness ==
    \E q \in QueryKeys :
        fetchStatus[q] = "error" /\ httpSent[q] = 2 /\ failureCount[q] = 1

------------------------------------------------------------------------------
(* What the views render from a query (only data and isLoading are read) *)

\* isLoading of an enabled query: a fetch is in flight and there is no data yet.
isLoading(q) == queryData[q] = None /\ fetchStatus[q] \in {"fetching", "retrying"}

\* Search results card: the record count in the title, then "loading" or the table.
SearchResultsView(loading, data) ==
    [ total |-> data,
      body |-> IF loading THEN "loading" ELSE "table",
      rows |-> IF loading \/ data = None THEN 0 ELSE data[1] ]

\* Dashboard: the whole page is "loading" while the stats load, then the cards show
\* stats?.total_funds and the like.
DashboardStatsView(loading, data) ==
    IF loading THEN "loading" ELSE IF data = None THEN "blank_cards" ELSE "cards"

\* Compare dropdown: searching, the items, or one of two messages.
CompareDropdownView(loading, data, text) ==
    IF loading THEN "searching"
    ELSE IF data # None /\ data[1] > 0 THEN "items"
    ELSE IF text # "" THEN "not_found" ELSE "hint"

\* Compare panels: the metrics table and the radar chart; compareData?.funds?.length
\* && <chart> renders the number 0 for an empty list.
ComparePanelView(loading, data) ==
    [ table |-> IF loading THEN "loading"
                ELSE IF data # None /\ data[1] > 0 THEN "table" ELSE "nothing",
      radar |-> IF data = None THEN "nothing" ELSE IF data[1] = 0 THEN "0" ELSE "chart" ]

\* C11: every view shows loading while its first fetch is in flight, and after a
\* failed fetch it shows an error state, that is, something it shows after no
\* successful fetch (empty or with data).
C11_TriState ==
    \A q \in QueryKeys :
        LET data == queryData[q]
        IN  /\ isLoading(q) =>
                 /\ SearchResultsView(TRUE, data).body = "loading"
                 /\ DashboardStatsView(TRUE, data) = "loading"
                 /\ ComparePanelView(TRUE, data).table = "loading"
                 /\ \A text \in Keywords : CompareDropdownView(TRUE, data, text) = "searching"
            /\ fetchStatus[q] = "error" =>
                 \A n \in ResultSizes :
                     /\ SearchResultsView(FALSE, data) # SearchResultsView(FALSE, Some(n))
                     /\ DashboardStatsView(FALSE, data) # DashboardStatsView(FALSE, Some(n))
                     /\ ComparePanelView(FALSE, data) # ComparePanelView(FALSE, Some(n))
                     /\ \A text \in Keywords :
                          CompareDropdownView(FALSE, data, text)
                              # CompareDropdownView(FALSE, Some(n), text)

------------------------------------------------------------------------------
(* The Search page (Search.tsx): filters, sorting, paging and its funds query *)

\* queryKey: ['funds-search', keyword, strategyId, page, sortBy, sortOrder]
QueryKey == <<keyword, strategyId, page, sortBy, sortOrder>>

\* The parameters getFunds is called with for a key; keyword || undefined.
FundsParams(key) ==
    [ keyword |-> IF key[1] = "" THEN None ELSE Some(key[1]),
      strategy_id |-> key[2],
      sort_by |-> key[4],
      order |-> key[5],
      page |-> key[3],
      page_size |-> pageSize ]

\* fundsData of the current key, when its fetch has succeeded.
DataLoaded == QueryKey \in DOMAIN cache /\ cache[QueryKey] = "fresh"

\* fundsData.total_pages
total_pages == serverPages[<<keyword, strategyId>>]

ObserveRefetching(key2) ==
    IF key2 \in DOMAIN cache /\ cache[key2] = "fetching"
      THEN cache' = cache /\ fetched' = None
      ELSE /\ Cardinality(DOMAIN cache \cup {key2}) <= MaxCached
           /\ cache' = [ k \in DOMAIN cache \cup {key2} |->
                           IF k = key2 THEN "fetching" ELSE cache[k] ]
           /\ fetched' = Some(FundsParams(key2))

ObserveAlways(key2) ==
    /\ Cardinality(DOMAIN cache \cup {key2}) <= MaxCached
    /\ cache' = [ k \in DOMAIN cache \cup {key2} |->
                    IF k = key2 /\ key2 # QueryKey THEN "fetching" ELSE cache[k] ]
    /\ fetched' = IF key2 # QueryKey THEN Some(FundsParams(key2)) ELSE None

\* The render after a state change: the funds query observes key2. A key that is
\* not in the cache is fetched; a fresh result (staleTime) is used as it is, and a
\* fetch already in flight for the key is joined.
Observe(key2) ==
    IF key2 \in DOMAIN cache
      THEN cache' = cache /\ fetched' = None
      ELSE /\ Cardinality(DOMAIN cache) < MaxCached
           /\ cache' = [ k \in DOMAIN cache \cup {key2} |->
                           IF k = key2 THEN "fetching" ELSE cache[k] ]
           /\ fetched' = Some(FundsParams(key2))

\* onChange of the keyword input
setKeyword(text) ==
    /\ text # keyword
    /\ keyword' = text
    /\ Observe(<<text, strategyId, page, sortBy, sortOrder>>)
    /\ clicked' = None
    /\ UNCHANGED <<strategyId, page, sortBy, sortOrder, serverPages>>
    /\ UNCHANGED <<storeVars, apiVars, pageVars, queryVars, chartVars, columnVars, dashVars>>

\* onChange of the strategy select
setStrategyId(id) ==
    /\ id # strategyId
    /\ strategyId' = id
    /\ Observe(<<keyword, id, page, sortBy, sortOrder>>)
    /\ clicked' = None
    /\ UNCHANGED <<keyword, page, sortBy, sortOrder, serverPages>>
    /\ UNCHANGED <<storeVars, apiVars, pageVars, queryVars, chartVars, columnVars, dashVars>>

\* handleSearch: the search button or Enter
handleSearch ==
    /\ page' = 1
    /\ Observe(<<keyword, strategyId, 1, sortBy, sortOrder>>)
    /\ clicked' = None
    /\ UNCHANGED <<keyword, strategyId, sortBy, sortOrder, serverPages>>
    /\ UNCHANGED <<storeVars, apiVars, pageVars, queryVars, chartVars, columnVars, dashVars>>

handleSortKeepingOrder(field) ==
    <<field, IF sortBy = field THEN sortOrder ELSE "desc", 1>>

\* handleSort(field), as <<sortBy, sortOrder, page>> after it
handleSort(field) ==
    IF sortBy = field
      THEN <<sortBy, IF sortOrder = "desc" THEN "asc" ELSE "desc", 1>>
      ELSE <<field, "desc", 1>>

SortHeaderClickAny(field) ==
    /\ DataLoaded
    /\ \E i \in DOMAIN visibleColumns : visibleColumns[i] = field
    /\ sortBy' = IF sortBy = field THEN sortBy ELSE field
    /\ sortOrder' = IF sortBy = field /\ sortOrder = "desc" THEN "asc" ELSE "desc"
    /\ page' = 1
    /\ Observe(<<keyword, strategyId, 1, sortBy', sortOrder'>>)
    /\ clicked' = Some(field)
    /\ UNCHANGED <<keyword, strategyId, serverPages>>
    /\ UNCHANGED <<storeVars, apiVars, pageVars, queryVars, chartVars, columnVars, dashVars>>

\* A click on the header of a visible column: column?.sortable && handleSort(field).
\* The table is rendered only when the page is not loading.
SortHeaderClick(field) ==
    /\ DataLoaded
    /\ \E i \in DOMAIN visibleColumns : visibleColumns[i] = field
    /\ LET column == FindColumn(field)
           next == IF column # None /\ column[1].sortable
                     THEN handleSort(field) ELSE <<sortBy, sortOrder, page>>
       IN  /\ sortBy' = next[1]
           /\ sortOrder' = next[2]
           /\ page' = next[3]
           /\ Observe(<<keyword, strategyId, next[3], next[1], next[2]>>)
    /\ clicked' = Some(field)
    /\ UNCHANGED <<keyword, strategyId, serverPages>>
    /\ UNCHANGED <<storeVars, apiVars, pageVars, queryVars, chartVars, columnVars, dashVars>>

\* The pagination is rendered when fundsData && fundsData.total_pages > 1.
PaginationRendered == DataLoaded /\ total_pages > 1

\* setPage(p => Math.max(1, p - 1)); the button is disabled on page 1.
PrevPage ==
    /\ PaginationRendered
    /\ page # 1
    /\ page' = Max({1, page - 1})
    /\ Observe(<<keyword, strategyId, page', sortBy, sortOrder>>)
    /\ clicked' = None
    /\ UNCHANGED <<keyword, strategyId, sortBy, sortOrder, serverPages>>
    /\ UNCHANGED <<storeVars, apiVars, pageVars, queryVars, chartVars, columnVars, dashVars>>

\* setPage(p => Math.min(fundsData.total_pages, p + 1)); disabled on the last page.
NextPage ==
    /\ PaginationRendered
    /\ page # total_pages
    /\ page' = Min2(total_pages, page + 1)
    /\ Observe(<<keyword, strategyId, page', sortBy, sortOrder>>)
    /\ clicked' = None
    /\ UNCHANGED <<keyword, strategyId, sortBy, sortOrder, serverPages>>
    /\ UNCHANGED <<storeVars, apiVars, pageVars, queryVars, chartVars, columnVars, dashVars>>

\* The fetch of a key succeeds: its result is cached and fresh.
FetchSucceeds(key) ==
    /\ key \in DOMAIN cache
    /\ cache[key] = "fetching"
    /\ cache' = [cache EXCEPT ![key] = "fresh"]
    /\ fetched' = None
    /\ clicked' = None
    /\ UNCHANGED <<keyword, strategyId, page, sortBy, sortOrder, serverPages>>
    /\ UNCHANGED <<storeVars, apiVars, pageVars, queryVars, chartVars, columnVars, dashVars>>

\* staleTime and the cache time have passed for a result no view observes.
Expire(key) ==
    /\ key \in DOMAIN cache
    /\ cache[key] = "fresh"
    /\ key # QueryKey
    /\ cache' = [ k \in DOMAIN cache \ {key} |-> cache[k] ]
    /\ fetched' = None
    /\ clicked' = None
    /\ UNCHANGED <<keyword, strategyId, page, sortBy, sortOrder, serverPages>>
    /\ UNCHANGED <<storeVars, apiVars, pageVars, queryVars, chartVars, columnVars, dashVars>>

\* The answers of the API in a run: the unfiltered list has MaxPage pages, a
\* filtered one has none or one.
ServerPageMaps ==
    { [ f \in Filters |-> IF f = <<"", None>> THEN MaxPage ELSE m ] : m \in 0..1 }

\* The page is mounted: its funds query fetches the initial key.
InitSearchPage ==
    /\ funds = FundCodes
    /\ store = {}
    /\ nextId = 1
    /\ insertResult = None
    /\ ApiIdle
    /\ InitPage
    /\ InitQueries
    /\ InitCharts
    /\ InitColumns
    /\ InitDash
    /\ keyword = ""
    /\ strategyId = None
    /\ page = 1
    /\ sortBy = "annual_return"
    /\ sortOrder = "desc"
    /\ serverPages \in ServerPageMaps
    /\ cache = [ k \in {<<"", None, 1, "annual_return", "desc">>} |-> "fetching" ]
    /\ fetched = Some(FundsParams(<<"", None, 1, "annual_return", "desc">>))
    /\ clicked = None

NextSearchPage ==
    \/ \E text \in SearchKeywords : setKeyword(text)
    \/ \E id \in StrategyIds : setStrategyId(id)
    \/ handleSearch
    \/ \E field \in ColumnKeys : SortHeaderClick(field)
    \/ PrevPage
    \/ NextPage
    \/ \E key \in DOMAIN cache : FetchSucceeds(key)
    \/ \E key \in DOMAIN cache : Expire(key)

SpecSearchPage == InitSearchPage /\ [][NextSearchPage]_vars

C24_FreshNotRequested ==
    [][ (QueryKey' # QueryKey /\ QueryKey' \in DOMAIN cache /\ cache[QueryKey'] = "fresh")
          => /\ fetched' = None
             /\ QueryKey' \in DOMAIN cache'
             /\ cache'[QueryKey'] = "fresh" ]_vars

\* C24 witness: a second click on the annual_return header brought the order back
\* to desc; the result of these inputs was still fresh and is shown without a request.
C24_Witness ==
    /\ clicked = Some("annual_return")
    /\ sortBy = "annual_return"
    /\ sortOrder = "desc"
    /\ fetched = None
    /\ DataLoaded

------------------------------------------------------------------------------
(* The requests the client issues (api.ts, as the pages call it) against a store *)

\* getFunds as the Search page, the Dashboard and the Compare dropdown call it.
ClientListRequests ==
    { SearchQuery(st) :
        st \in [ keyword : {None}, strategyId : {None}, page : 1..MaxPage,
                 sortBy : SortFields, sortOrder : {"asc", "desc"} ] }
    \cup
    { DashboardQuery(st) :
        st \in [ selectedStrategy : {None}, selectedReportDate : { Some(d) : d \in ReportDates },
                 page : 1..MaxPage, sortBy : SortFields, sortOrder : {"asc", "desc"} ] }
    \cup
    { ListRequest(None, None, None, None, None, Some(10)) }

\* compareFunds(selectedFunds.map(f => f.fund_code)): 2 to 5 codes, no date range.
ClientCompareRequests ==
    { [ fund_codes |-> Ascending(S), start_date |-> None, end_date |-> None ] :
        S \in { T \in SUBSET FundCodes : Cardinality(T) >= MinFundsToCompare
                                          /\ Cardinality(T) <= MaxSelectedFunds } }

\* getReportDates(): GET /analytics/report-dates
GetReportDates ==
    /\ ApiIdle
    /\ origin' = "report-dates"
    /\ req' = Some([ path |-> "/analytics/report-dates" ])
    /\ resp' = Some([ dates |-> ReportDatesDesc(store) ])
    /\ UNCHANGED <<storeVars, pageVars, queryVars, uiVars>>

NextClient ==
    \/ \E r \in ClientListRequests : ListFunds(r)
    \/ \E c \in ClientCompareRequests : CompareFundsApi(c)
    \/ GetReportDates
    \/ Reply

SpecClient == InitList /\ [][NextClient]_vars

\* C13: no request of the client changes the store: in every step the funds and the
\* performance rows stay what they were.
C13_StoreUnchanged ==
    [][store' = store /\ funds' = funds /\ nextId' = nextId]_vars

\* C13 witness: a comparison was answered over a store that has rows.
C13_Witness ==
    /\ origin = "compare" /\ resp # None /\ resp[1].status = "ok"
    /\ Cardinality(store) = MaxRows
    /\ \E i \in DOMAIN resp[1].funds : resp[1].funds[i].latest = None

------------------------------------------------------------------------------
(* The radar chart of the Compare page (getRadarOption) *)

\* A metric of a snapshot as the API sends it: null, or a number (in tenths).
MetricValues == {None, Some(-1), Some(60)}

\* fund.latest: null, or the latest snapshot with the five metrics the chart reads.
LatestValues ==
    {None} \cup
    { Some(r) : r \in [ annual_return : MetricValues, annual_sharpe : MetricValues,
                        cumulative_return : MetricValues, max_drawdown : MetricValues,
                        annual_volatility : MetricValues ] }

\* The results the compare query can hold: undefined, or up to MaxRadarFunds funds,
\* one entry per compared fund_code.
CompareResults ==
    {None} \cup
    { Some([ funds |-> [ i \in DOMAIN ls |-> [ fund_code |-> i, latest |-> ls[i] ] ] ]) :
        ls \in UNION { [ 1..n -> LatestValues ] : n \in 0..MaxRadarFunds } }

\* The axes, with their max (in tenths): 1, 5, 2, 0.5, 0.5.
indicators ==
    << [ name |-> "annual_return", max |-> 10 ],
       [ name |-> "annual_sharpe", max |-> 50 ],
       [ name |-> "cumulative_return", max |-> 20 ],
       [ name |-> "max_drawdown", max |-> 5 ],
       [ name |-> "annual_volatility", max |-> 5 ] >>

RadarValueSigned(latest, metric) ==
    IF latest = None \/ latest[1][metric] = None THEN 0 ELSE latest[1][metric][1]

\* Math.abs(latest?.metric || 0)
RadarValue(latest, metric) ==
    LET v == IF latest = None \/ latest[1][metric] = None \/ latest[1][metric] = Some(0)
               THEN 0 ELSE latest[1][metric][1]
    IN  IF v < 0 THEN 0 - v ELSE v

\* getRadarOption(): {} (here <<>>) without funds, else the axes and one series per fund.
getRadarOption(data) ==
    IF data = None \/ Len(data[1].funds) = 0
      THEN None
      ELSE Some([ indicator |-> indicators,
                  series |-> [ i \in DOMAIN data[1].funds |->
                      [ fund_code |-> data[1].funds[i].fund_code,
                        value |-> << RadarValue(data[1].funds[i].latest, "annual_return"),
                                     RadarValue(data[1].funds[i].latest, "annual_sharpe"),
                                     RadarValue(data[1].funds[i].latest, "cumulative_return"),
                                     RadarValue(data[1].funds[i].latest, "max_drawdown"),
                                     RadarValue(data[1].funds[i].latest, "annual_volatility") >> ] ] ])

\* The radar card: compareData?.funds?.length && <ReactECharts option={getRadarOption()} />
RenderRadar ==
    /\ radarOption = None
    /\ compareData # None
    /\ Len(compareData[1].funds) > 0
    /\ radarOption' = Some(getRadarOption(compareData))
    /\ UNCHANGED <<compareData, distribution, pieData>>
    /\ UNCHANGED <<storeVars, apiVars, pageVars, queryVars, searchVars, columnVars, dashVars>>

\* The chart is unmounted (the selection fell below 2 funds).
UnmountRadar ==
    /\ radarOption # None
    /\ radarOption' = None
    /\ UNCHANGED <<compareData, distribution, pieData>>
    /\ UNCHANGED <<storeVars, apiVars, pageVars, queryVars, searchVars, columnVars, dashVars>>

InitRadar ==
    /\ funds = FundCodes
    /\ store = {}
    /\ nextId = 1
    /\ insertResult = None
    /\ ApiIdle
    /\ InitPage
    /\ InitQueries
    /\ InitSearch
    /\ InitColumns
    /\ InitDash
    /\ compareData \in CompareResults
    /\ radarOption = None
    /\ distribution = None
    /\ pieData = None

NextRadar == RenderRadar \/ UnmountRadar

SpecRadar == InitRadar /\ [][NextRadar]_vars

RadarMetrics ==
    << "annual_return", "annual_sharpe", "cumulative_return", "max_drawdown",
       "annual_volatility" >>

\* C15: the rendered radar option has one series per fund of the comparison, each
\* with exactly five values in the order annual return, Sharpe, cumulative return,
\* max drawdown, volatility; a value is 0 when latest or the metric is missing and
\* else the metric's absolute value, so no value is negative.
C15_RadarValues ==
    radarOption # None =>
        LET fs == compareData[1].funds
            opt == radarOption[1][1]
        IN  /\ radarOption[1] # None
            /\ Len(opt.series) = Len(fs)
            /\ \A i \in DOMAIN fs :
                 /\ opt.series[i].fund_code = fs[i].fund_code
                 /\ Len(opt.series[i].value) = 5
                 /\ \A k \in 1..5 :
                      LET v == opt.series[i].value[k]
                          missing == fs[i].latest = None
                                       \/ fs[i].latest[1][RadarMetrics[k]] = None
                      IN  /\ v >= 0
                          /\ missing => v = 0
                          /\ ~missing =>
                               \/ v = fs[i].latest[1][RadarMetrics[k]][1]
                               \/ v = 0 - fs[i].latest[1][RadarMetrics[k]][1]

\* C15 witness: a fund with a negative drawdown, a positive return and no Sharpe value
\* is plotted as 60, 0, ., 1, .
C15_Witness ==
    /\ radarOption # None /\ radarOption[1] # None
    /\ compareData[1].funds[1].latest # None
    /\ compareData[1].funds[1].latest[1].max_drawdown = Some(-1)
    /\ compareData[1].funds[1].latest[1].annual_return = Some(60)
    /\ compareData[1].funds[1].latest[1].annual_sharpe = None
    /\ radarOption[1][1].series[1].value[1] = 60
    /\ radarOption[1][1].series[1].value[2] = 0
    /\ radarOption[1][1].series[1].value[4] = 1

------------------------------------------------------------------------------
(* The strategy pie chart of the Dashboard (StrategyPieChart) *)

\* The fund counts of the sample distributions.
StrategyCounts == {1, 2}

\* data: StrategyDistribution[]: one name/count pair per strategy, in any order.
\* The i-th pair is named i; the label text shown for a name is not modelled.
DistributionLists ==
    { [ i \in DOMAIN counts |-> [ name |-> i, value |-> counts[i] ] ] :
        counts \in UNION { [ 1..n -> StrategyCounts ] : n \in 0..MaxStrategies } }

\* data.slice(0, 10)
MaxSlices == 10

\* series[0].data: data.slice(0, 10).map(item => ({ value, name }))
StrategyPieChart(data) ==
    [ i \in 1..(IF Len(data) < MaxSlices THEN Len(data) ELSE MaxSlices) |->
        [ value |-> data[i].value, name |-> data[i].name ] ]

\* The distribution query answers and the card re-renders:
\* distribution?.items && <StrategyPieChart data={distribution.items} />
ReceiveDistribution ==
    /\ distribution = None
    /\ \E items \in DistributionLists :
         /\ distribution' = Some([ items |-> items ])
         /\ pieData' = Some(StrategyPieChart(items))
    /\ UNCHANGED <<compareData, radarOption>>
    /\ UNCHANGED <<storeVars, apiVars, pageVars, queryVars, searchVars, columnVars, dashVars>>

\* Another report date is selected: the query key changes, its data is undefined
\* until the answer arrives, and the chart is not rendered.
ChangeReportDate ==
    /\ distribution # None
    /\ distribution' = None
    /\ pieData' = None
    /\ UNCHANGED <<compareData, radarOption>>
    /\ UNCHANGED <<storeVars, apiVars, pageVars, queryVars, searchVars, columnVars, dashVars>>

InitPie ==
    /\ funds = FundCodes
    /\ store = {}
    /\ nextId = 1
    /\ insertResult = None
    /\ ApiIdle
    /\ InitPage
    /\ InitQueries
    /\ InitUi

NextPie == ReceiveDistribution \/ ChangeReportDate

SpecPie == InitPie /\ [][NextPie]_vars

\* C16: the pie chart draws the top 10 of the distribution received: at most 10
\* slices, and no strategy left out has a larger count than a strategy drawn.
C16_TopTen ==
    pieData # None =>
        LET items == distribution[1].items
            drawn == { pieData[1][i].name : i \in DOMAIN pieData[1] }
        IN  /\ Len(pieData[1]) <= 10
            /\ \A i, j \in DOMAIN items :
                 (items[i].name \in drawn /\ items[j].name \notin drawn)
                     => items[j].value <= items[i].value

------------------------------------------------------------------------------
(* The column selector of the Search page (ColumnSelector) and reloads *)

Without(columns, columnKey) ==
    LET Keep(k) == k # columnKey
    IN  SelectSeq(columns, Keep)

toggleColumnAny(columnKey) ==
    IF columnKey \in Range(visibleColumns)
      THEN Without(visibleColumns, columnKey)
      ELSE Append(visibleColumns, columnKey)

\* toggleColumn: the list it passes to onColumnsChange; a basic column returns early.
toggleColumn(columnKey) ==
    IF FindColumn(columnKey) # None /\ FindColumn(columnKey)[1].category = "basic"
      THEN visibleColumns
    ELSE IF columnKey \in Range(visibleColumns)
      THEN Without(visibleColumns, columnKey)
      ELSE Append(visibleColumns, columnKey)

\* The queries of the Dashboard page
DashboardQueriesAlways(date, strategy, pageNo, sortField, order) ==
    { [ query |-> "stats", report_date |-> date ],
      [ query |-> "strategies", report_date |-> date ],
      [ query |-> "distribution", report_date |-> date ],
      [ query |-> "funds", report_date |-> date, strategy_id |-> strategy,
        sort_by |-> sortField, order |-> order, page |-> pageNo, page_size |-> pageSize ] }

\* The four queries with enabled: !!selectedReportDate, and what each would send.
DashboardQueries(date, strategy, pageNo, sortField, order) ==
    IF date = None
      THEN {}
      ELSE { [ query |-> "stats", report_date |-> date ],
             [ query |-> "strategies", report_date |-> date ],
             [ query |-> "distribution", report_date |-> date ],
             [ query |-> "funds", report_date |-> date, strategy_id |-> strategy,
               sort_by |-> sortField, order |-> order, page |-> pageNo,
               page_size |-> pageSize ] }

\* The queries whose key differs after a step; these are requested (a key whose
\* result is cached and fresh is served from the cache instead).
NewQueries(date, strategy, pageNo, sortField, order) ==
    DashboardQueries(date, strategy, pageNo, sortField, order)
        \ DashboardQueries(selectedReportDate, selectedStrategy, page, sortBy, sortOrder)

SameQueryKeysSortReset ==
    /\ fetched' = None
    /\ clicked' = None
    /\ observed' = {}
    /\ sortOrder' = "desc"
    /\ UNCHANGED <<keyword, strategyId, page, sortBy, serverPages, cache>>
    /\ UNCHANGED <<selectedStrategy, selectedReportDate, reportDates, dashPages, dashLoaded>>

\* The render after a change of the column list: setVisibleColumns is the only
\* setter called, and no query key holds visibleColumns, so the funds query of the
\* Search page observes the key it had and the Dashboard's queries theirs.
SameQueryKeys ==
    /\ UNCHANGED <<keyword, strategyId, page, sortBy, sortOrder, serverPages>>
    /\ UNCHANGED <<selectedStrategy, selectedReportDate, reportDates, dashPages, dashLoaded>>
    /\ IF QueryKey \in DOMAIN cache
         THEN Observe(QueryKey')
         ELSE cache' = cache /\ fetched' = None
    /\ observed' = NewQueries(selectedReportDate', selectedStrategy', page', sortBy', sortOrder')
    /\ clicked' = None

\* onColumnsChange = setVisibleColumns, then the effect saves the list.
ColumnsChange(columns, op) ==
    /\ visibleColumns' = columns
    /\ localStorage' = SaveEffect(columns)
    /\ columnOp' = Some(op)
    /\ SameQueryKeys
    /\ UNCHANGED <<storeVars, apiVars, pageVars, queryVars, chartVars>>

ToggleColumn(columnKey) ==
    IF toggleColumn(columnKey) = visibleColumns
      THEN /\ columnOp' = Some([ op |-> "toggleColumn", key |-> columnKey ])
           /\ UNCHANGED <<visibleColumns, localStorage>>
           /\ SameQueryKeys
           /\ UNCHANGED <<storeVars, apiVars, pageVars, queryVars, chartVars>>
      ELSE ColumnsChange(toggleColumn(columnKey),
                         [ op |-> "toggleColumn", key |-> columnKey ])

selectAll == ColumnsChange(AllColumnKeys, [ op |-> "selectAll", key |-> "" ])

resetToDefault == ColumnsChange(getDefaultVisibleColumns, [ op |-> "resetToDefault", key |-> "" ])

\* The page is loaded again: every useState starts over, the column list is read
\* from the storage and saved again, and the funds query fetches the initial key.
Reload ==
    /\ visibleColumns' = StoredColumns
    /\ localStorage' = SaveEffect(StoredColumns)
    /\ columnOp' = Some([ op |-> "reload", key |-> "" ])
    /\ keyword' = ""
    /\ strategyId' = None
    /\ page' = 1
    /\ sortBy' = "annual_return"
    /\ sortOrder' = "desc"
    /\ cache' = [ k \in {<<"", None, 1, "annual_return", "desc">>} |-> "fetching" ]
    /\ fetched' = Some(FundsParams(<<"", None, 1, "annual_return", "desc">>))
    /\ clicked' = None
    /\ UNCHANGED serverPages
    /\ UNCHANGED <<storeVars, apiVars, pageVars, queryVars, chartVars, dashVars>>

\* The browser's storage is emptied (site data cleared) while the page is open.
ClearStorage ==
    /\ localStorage # None
    /\ localStorage' = None
    /\ columnOp' = Some([ op |-> "clear", key |-> "" ])
    /\ UNCHANGED visibleColumns
    /\ SameQueryKeys
    /\ UNCHANGED <<storeVars, apiVars, pageVars, queryVars, chartVars>>

InitColumnsPage == InitSearchPage

NextColumns ==
    \/ \E columnKey \in ColumnKeys : ToggleColumn(columnKey)
    \/ selectAll
    \/ resetToDefault
    \/ Reload
    \/ ClearStorage

SpecColumns == InitColumnsPage /\ [][NextColumns]_vars

\* C17: a reload shows the column list that was visible before it whenever a
\* value is stored, the stored value is the list shown after every column change,
\* and a reload with nothing stored shows the defaults.
C17_PersistedAcrossReload ==
    [][ /\ (columnOp' # None /\ columnOp'[1].op \in {"toggleColumn", "selectAll", "resetToDefault"}
              /\ visibleColumns' # visibleColumns)
           => (localStorage' # None /\ JSONparse(localStorage'[1]) = visibleColumns')
        /\ (columnOp' # None /\ columnOp'[1].op = "reload")
           => /\ localStorage # None => visibleColumns' = visibleColumns
              /\ localStorage = None => visibleColumns' = getDefaultVisibleColumns ]_vars

\* C17 witness: a reload after column changes shows a list other than the defaults.
C17_Witness ==
    /\ columnOp # None
    /\ columnOp[1].op = "reload"
    /\ visibleColumns # getDefaultVisibleColumns
    /\ "weekly_return" \in Range(visibleColumns)
    /\ "annual_sharpe" \notin Range(visibleColumns)

BasicColumnKeys ==
    { PERFORMANCE_COLUMNS[i].key :
        i \in { j \in DOMAIN PERFORMANCE_COLUMNS : PERFORMANCE_COLUMNS[j].category = "basic" } }

\* C18: fund_name, manager_name and strategy_name are in visibleColumns in every
\* state reachable through toggleColumn, selectAll, resetToDefault and reloads,
\* and toggleColumn on one of them changes neither the list nor its stored copy.
C18_BasicAlwaysShown ==
    /\ [](BasicColumnKeys = {"fund_name", "manager_name", "strategy_name"}
            /\ BasicColumnKeys \subseteq Range(visibleColumns))
    /\ [][ (columnOp' # None /\ columnOp'[1].op = "toggleColumn"
              /\ columnOp'[1].key \in BasicColumnKeys)
           => (visibleColumns' = visibleColumns /\ localStorage' = localStorage) ]_vars

\* C18 witness: toggleColumn was called on a basic column after other columns changed.
C18_Witness ==
    /\ columnOp # None
    /\ columnOp[1].op = "toggleColumn"
    /\ columnOp[1].key = "fund_name"
    /\ visibleColumns # getDefaultVisibleColumns
    /\ "fund_name" \in Range(visibleColumns)

------------------------------------------------------------------------------
(* Sorting by a click on a column header *)

\* C19: a click on the header of a sortable column that is the sort column flips
\* the order between desc and asc and keeps the column (so two clicks restore the
\* order); on another sortable column it makes that column the sort column with
\* order desc; on a non-sortable (basic) column it changes neither.
C19_HeaderClickSorts ==
    /\ [](sortOrder \in {"asc", "desc"})
    /\ [][ clicked' # None =>
             IF FindColumn(clicked'[1])[1].sortable
               THEN IF clicked'[1] = sortBy
                      THEN sortBy' = sortBy /\ sortOrder' # sortOrder
                      ELSE sortBy' = clicked'[1] /\ sortOrder' = "desc"
               ELSE sortBy' = sortBy /\ sortOrder' = sortOrder ]_vars

\* C19 witness: annual_sharpe was made the sort column, then clicked again.
C19_Witness ==
    /\ clicked = Some("annual_sharpe")
    /\ sortBy = "annual_sharpe"
    /\ sortOrder = "asc"

------------------------------------------------------------------------------
(* The entries of the Compare page's dropdown *)

\* C20: in every state, no fund offered in the dropdown has a fund_code that is
\* in the selection.
C20_DropdownExcludesSelected ==
    \A i \in DOMAIN Offered : \A j \in DOMAIN selectedFunds : Offered[i] # selectedFunds[j]

\* C20 witness: the search results hold a selected fund and the dropdown offers
\* the other result only.
C20_Witness ==
    /\ showDropdown
    /\ searchResults # None
    /\ searchResults[1].items = <<1, 2>>
    /\ selectedFunds = <<1>>
    /\ Offered = <<2>>

------------------------------------------------------------------------------
(* The Dashboard page *)

\* The answers of GET /analytics/report-dates: the available dates, latest first.
DateLists ==
    { ReportDatesDesc({ [ report_date |-> d ] : d \in S }) : S \in SUBSET ReportDates }

DashFilters == StrategyIds \X ReportDates

\* The answers of the API in a run: the unfiltered ranking of a date has MaxPage
\* pages, a ranking filtered by strategy has none or one.
DashPageMaps ==
    { [ f \in DashFilters |-> IF f[1] = None THEN MaxPage ELSE m ] : m \in 0..1 }

\* The funds table shows data: fundsData.total_pages of the current filter.
dash_total_pages == dashPages[<<selectedStrategy, selectedReportDate[1]>>]

\* The report-dates query answers; the effect selects dates[0] when the list is
\* not empty and no date is selected.
ReportDatesArrive ==
    /\ reportDates = None
    /\ \E dates \in DateLists :
         /\ reportDates' = Some(dates)
         /\ selectedReportDate' =
              IF Len(dates) > 0 /\ selectedReportDate = None
                THEN Some(dates[1]) ELSE selectedReportDate
    /\ observed' = NewQueries(selectedReportDate', selectedStrategy, page, sortBy, sortOrder)
    /\ dashLoaded' = FALSE
    /\ UNCHANGED <<selectedStrategy, dashPages>>
    /\ UNCHANGED <<storeVars, apiVars, pageVars, queryVars, chartVars, searchVars, columnVars>>

\* onChange of the report date select: setSelectedReportDate(value); setPage(1)
SelectReportDate(date) ==
    /\ reportDates # None
    /\ selectedReportDate # None
    /\ \E i \in DOMAIN reportDates[1] : reportDates[1][i] = date
    /\ Some(date) # selectedReportDate
    /\ selectedReportDate' = Some(date)
    /\ page' = 1
    /\ observed' = NewQueries(Some(date), selectedStrategy, 1, sortBy, sortOrder)
    /\ dashLoaded' = FALSE
    /\ clicked' = None
    /\ UNCHANGED <<selectedStrategy, reportDates, dashPages>>
    /\ UNCHANGED <<keyword, strategyId, sortBy, sortOrder, serverPages, cache, fetched>>
    /\ UNCHANGED <<storeVars, apiVars, pageVars, queryVars, chartVars, columnVars>>

\* handleStrategyChange(strategyId): setSelectedStrategy(strategyId); setPage(1)
handleStrategyChange(id) ==
    /\ selectedReportDate # None
    /\ id # selectedStrategy
    /\ selectedStrategy' = id
    /\ page' = 1
    /\ observed' = NewQueries(selectedReportDate, id, 1, sortBy, sortOrder)
    /\ dashLoaded' = FALSE
    /\ clicked' = None
    /\ UNCHANGED <<selectedReportDate, reportDates, dashPages>>
    /\ UNCHANGED <<keyword, strategyId, sortBy, sortOrder, serverPages, cache, fetched>>
    /\ UNCHANGED <<storeVars, apiVars, pageVars, queryVars, chartVars, columnVars>>

\* A click on the header of a visible column of the ranking table, which is
\* rendered when the funds query is not loading.
DashSortHeaderClick(field) ==
    /\ dashLoaded
    /\ \E i \in DOMAIN visibleColumns : visibleColumns[i] = field
    /\ LET column == FindColumn(field)
           next == IF column # None /\ column[1].sortable
                     THEN handleSort(field) ELSE <<sortBy, sortOrder, page>>
       IN  /\ sortBy' = next[1]
           /\ sortOrder' = next[2]
           /\ page' = next[3]
           /\ observed' = NewQueries(selectedReportDate, selectedStrategy,
                                     next[3], next[1], next[2])
           /\ dashLoaded' = (<<next[1], next[2], next[3]>> = <<sortBy, sortOrder, page>>)
    /\ clicked' = Some(field)
    /\ UNCHANGED <<selectedStrategy, selectedReportDate, reportDates, dashPages>>
    /\ UNCHANGED <<keyword, strategyId, serverPages, cache, fetched>>
    /\ UNCHANGED <<storeVars, apiVars, pageVars, queryVars, chartVars, columnVars>>

\* The Dashboard's pagination: rendered when fundsData && fundsData.total_pages > 1.
DashPrevPage ==
    /\ dashLoaded
    /\ dash_total_pages > 1
    /\ page # 1
    /\ page' = Max({1, page - 1})
    /\ observed' = NewQueries(selectedReportDate, selectedStrategy, page', sortBy, sortOrder)
    /\ dashLoaded' = FALSE
    /\ clicked' = None
    /\ UNCHANGED <<selectedStrategy, selectedReportDate, reportDates, dashPages>>
    /\ UNCHANGED <<keyword, strategyId, sortBy, sortOrder, serverPages, cache, fetched>>
    /\ UNCHANGED <<storeVars, apiVars, pageVars, queryVars, chartVars, columnVars>>

DashNextPage ==
    /\ dashLoaded
    /\ dash_total_pages > 1
    /\ page # dash_total_pages
    /\ page' = Min2(dash_total_pages, page + 1)
    /\ observed' = NewQueries(selectedReportDate, selectedStrategy, page', sortBy, sortOrder)
    /\ dashLoaded' = FALSE
    /\ clicked' = None
    /\ UNCHANGED <<selectedStrategy, selectedReportDate, reportDates, dashPages>>
    /\ UNCHANGED <<keyword, strategyId, sortBy, sortOrder, serverPages, cache, fetched>>
    /\ UNCHANGED <<storeVars, apiVars, pageVars, queryVars, chartVars, columnVars>>

\* The funds query of the current key answers.
DashFundsArrive ==
    /\ selectedReportDate # None
    /\ ~dashLoaded
    /\ dashLoaded' = TRUE
    /\ observed' = {}
    /\ clicked' = None
    /\ UNCHANGED <<selectedStrategy, selectedReportDate, reportDates, dashPages>>
    /\ UNCHANGED <<keyword, strategyId, page, sortBy, sortOrder, serverPages, cache, fetched>>
    /\ UNCHANGED <<storeVars, apiVars, pageVars, queryVars, chartVars, columnVars>>

\* The page is mounted: only the report-dates query runs.
InitDashboard ==
    /\ funds = FundCodes
    /\ store = {}
    /\ nextId = 1
    /\ insertResult = None
    /\ ApiIdle
    /\ InitPage
    /\ InitQueries
    /\ InitCharts
    /\ InitSearch
    /\ InitColumns
    /\ selectedStrategy = None
    /\ selectedReportDate = None
    /\ reportDates = None
    /\ dashPages \in DashPageMaps
    /\ dashLoaded = FALSE
    /\ observed = DashboardQueries(None, None, 1, "annual_return", "desc")
                    \cup { [ query |-> "report-dates" ] }

NextDashboard ==
    \/ ReportDatesArrive
    \/ \E date \in ReportDates : SelectReportDate(date)
    \/ \E id \in StrategyIds : handleStrategyChange(id)
    \/ \E field \in ColumnKeys : DashSortHeaderClick(field)
    \/ DashPrevPage
    \/ DashNextPage
    \/ DashFundsArrive

SpecDashboard == InitDashboard /\ [][NextDashboard]_vars

DashQueryNames == {"stats", "strategies", "distribution", "funds"}

\* C21: when the report dates arrive non-empty and no date is selected, the first
\* and latest date of the list is selected; while no date is selected no stats,
\* strategies, distribution or funds request is made, and each such request carries
\* a report_date.
C21_DateBeforeRequests ==
    /\ [](\A q \in observed :
            q.query \in DashQueryNames =>
              /\ selectedReportDate # None
              /\ q.report_date # None
              /\ q.report_date = selectedReportDate)
    /\ [][ (reportDates = None /\ reportDates' # None /\ Len(reportDates'[1]) > 0
              /\ selectedReportDate = None)
           => /\ selectedReportDate' = Some(reportDates'[1][1])
              /\ \A i \in DOMAIN reportDates'[1] : reportDates'[1][i] <= reportDates'[1][1] ]_vars

\* C21 witness: of two dates the later was selected and the four queries request it.
C21_Witness ==
    /\ reportDates # None
    /\ Len(reportDates[1]) = 2
    /\ selectedReportDate = Some(2)
    /\ { q.query : q \in observed } = DashQueryNames

------------------------------------------------------------------------------
(* The Compare page's dropdown under mouse clicks, focus changes and blur timers *)

\* The input takes the focus: onFocus={handleInputFocus}
FocusInput ==
    /\ pressed = None
    /\ ~focused
    /\ handleInputFocus
    /\ focused' = TRUE
    /\ openedAfterBlur' = TRUE
    /\ UNCHANGED pressed

\* The input loses the focus: onBlur={handleInputBlur}
BlurInput ==
    /\ pressed = None
    /\ focused
    /\ handleInputBlur
    /\ focused' = FALSE
    /\ openedAfterBlur' = FALSE
    /\ UNCHANGED pressed

\* The search button, clicked while the input does not have the focus:
\* onClick={() => setShowDropdown(true)}
ClickSearchButton ==
    /\ pressed = None
    /\ ~focused
    /\ InputRendered
    /\ showDropdown' = TRUE
    /\ openedAfterBlur' = TRUE
    /\ UNCHANGED <<focused, pressed>>
    /\ UNCHANGED <<searchKeyword, selectedFunds, blurTimers, compareQuery, searchResults,
                   storeVars, apiVars, queryVars, uiVars>>

\* The mouse button goes down on a dropdown entry; an input that has the focus
\* loses it, and handleInputBlur sets its timer.
MouseDownOnEntry(fund) ==
    /\ pressed = None
    /\ \E i \in DOMAIN Offered : Offered[i] = fund
    /\ pressed' = Some([ fund |-> fund, blurred |-> focused ])
    /\ IF focused
         THEN /\ handleInputBlur
              /\ focused' = FALSE
              /\ openedAfterBlur' = FALSE
         ELSE /\ UNCHANGED <<focused, openedAfterBlur>>
              /\ UNCHANGED <<searchKeyword, selectedFunds, showDropdown, blurTimers,
                             compareQuery, searchResults, storeVars, apiVars, queryVars,
                             uiVars>>

\* The mouse button is released: the entry's onClick={() => addFund(fund)} runs if
\* the entry is still rendered; a click on an entry that is gone is not delivered.
ClickEntry ==
    /\ pressed # None
    /\ pressed' = None
    /\ IF \E i \in DOMAIN Offered : Offered[i] = pressed[1].fund
         THEN /\ addFund(pressed[1].fund)
              /\ openedAfterBlur' = FALSE
              /\ UNCHANGED focused
         ELSE /\ UNCHANGED <<focused, openedAfterBlur>>
              /\ UNCHANGED <<searchKeyword, selectedFunds, showDropdown, blurTimers,
                             compareQuery, searchResults, storeVars, apiVars, queryVars,
                             uiVars>>

NextDropdown ==
    \/ FocusInput /\ UNCHANGED addResult
    \/ BlurInput /\ UNCHANGED addResult
    \/ ClickSearchButton /\ UNCHANGED addResult
    \/ (\E fund \in PageFunds : MouseDownOnEntry(fund)) /\ UNCHANGED addResult
    \/ ClickEntry /\ UNCHANGED addResult
    \/ BlurTimeout /\ UNCHANGED <<clickVars, addResult>>
    \/ SearchResultsArrive /\ UNCHANGED <<clickVars, addResult>>
    \/ pressed = None /\ (\E text \in Keywords : InputChange(text))
         /\ UNCHANGED <<clickVars, addResult>>
    \/ pressed = None /\ (\E fundCode \in PageFunds : removeFund(fundCode))
         /\ UNCHANGED <<clickVars, addResult>>

SpecDropdown == InitComparePage /\ [][NextDropdown]_vars

\* C22: when the input loses the focus because the mouse goes down on a dropdown
\* entry, the entry's click is handled (addFund appends the fund) whenever the
\* blur's timer fires, before or after the mouse button is released.
C22_ClickBeforeClose ==
    [][ (pressed # None /\ pressed[1].blurred /\ pressed' = None)
          => selectedFunds' = Append(selectedFunds, pressed[1].fund) ]_vars

\* C23: focusing the input or clicking the search button shows the dropdown, and a
\* timer of a blur that came before the dropdown was opened does not hide it.
C23_StaysShown ==
    /\ [][ (openedAfterBlur' /\ ~openedAfterBlur) => showDropdown' ]_vars
    /\ [][ (openedAfterBlur /\ showDropdown /\ blurTimers' < blurTimers)
             => showDropdown' ]_vars

------------------------------------------------------------------------------
(* Sorting and the column selector together, on the Search page or the Dashboard *)

\* The Search page is the page that is mounted (its funds query is in the cache);
\* otherwise it is the Dashboard.
SearchMounted == DOMAIN cache # {}

InitSorting == InitSearchPage \/ InitDashboard

NextSorting ==
    \/ SearchMounted /\ \E field \in ColumnKeys : SortHeaderClick(field)
    \/ SearchMounted /\ \E key \in DOMAIN cache : FetchSucceeds(key)
    \/ SearchMounted /\ \E key \in DOMAIN cache : Expire(key)
    \/ ~SearchMounted /\ ReportDatesArrive
    \/ ~SearchMounted /\ \E field \in ColumnKeys : DashSortHeaderClick(field)
    \/ ~SearchMounted /\ DashFundsArrive
    \/ \E columnKey \in ColumnKeys : ToggleColumn(columnKey)
    \/ selectAll
    \/ resetToDefault

SpecSorting == InitSorting /\ [][NextSorting]_vars

SortableKeys ==
    { PERFORMANCE_COLUMNS[i].key :
        i \in { j \in DOMAIN PERFORMANCE_COLUMNS : PERFORMANCE_COLUMNS[j].sortable } }

\* C25: whatever headers are clicked and columns shown or hidden, the sort column
\* and the sort_by of every /funds request of the Search page and of the Dashboard
\* is the key of a column marked sortable; a basic column key is never sent.
C25_SortByIsSortable ==
    /\ sortBy \in SortableKeys
    /\ sortBy \notin BasicColumnKeys
    /\ fetched # None => fetched[1].sort_by \in SortableKeys
    /\ \A q \in observed : q.query = "funds" => q.sort_by \in SortableKeys

\* C25 witness: the table is sorted by a column that was then hidden, after a
\* click on a basic header.
C25_Witness ==
    /\ sortBy = "annual_sharpe"
    /\ "annual_sharpe" \notin Range(visibleColumns)
    /\ "weekly_return" \in Range(visibleColumns)
    /\ SearchMounted
    /\ DataLoaded

------------------------------------------------------------------------------
(* The page number under filter and sort changes *)

\* C26: every user action that changes a filter or sort input (keyword, strategy,
\* sort column, sort direction) leaves the page number at 1, and the request it
\* sends asks for page 1. Stated for the Search page; the Dashboard's handlers
\* (date select, handleStrategyChange, handleSort) all call setPage(1).
C26_FilterChangeResetsPage ==
    [][ (keyword' # keyword \/ strategyId' # strategyId
           \/ sortBy' # sortBy \/ sortOrder' # sortOrder)
          => /\ page' = 1
             /\ fetched' # None => fetched'[1].page = 1 ]_vars

\* C27: the page number is at least 1 and, whenever the result of the current
\* inputs is loaded and not empty, at most its total_pages; previous on page 1 and
\* next on the last page leave the page as it is.
C27_PageWithinRange ==
    /\ page >= 1
    /\ (DataLoaded /\ total_pages >= 1) => page <= total_pages
    /\ page = 1 => Max({1, page - 1}) = page
    /\ page = total_pages => Min2(total_pages, page + 1) = page

------------------------------------------------------------------------------
(* addFund on the Compare page *)

\* C28: addFund with 5 funds selected, or with a fund_code that is selected, changes
\* neither the selection nor the keyword nor the dropdown's visibility; an accepted
\* addFund appends the fund at the end, clears the keyword and closes the dropdown.
C28_AddFundGuard ==
    [][ \A fund \in PageFunds :
          (addFund(fund) /\ addResult' # None) =>
            IF Len(selectedFunds) >= 5
                 \/ \E i \in DOMAIN selectedFunds : selectedFunds[i] = fund
              THEN /\ addResult' = Some("ignored")
                   /\ selectedFunds' = selectedFunds
                   /\ searchKeyword' = searchKeyword
                   /\ showDropdown' = showDropdown
              ELSE /\ addResult' = Some("accepted")
                   /\ selectedFunds' = selectedFunds \o <<fund>>
                   /\ searchKeyword' = ""
                   /\ showDropdown' = FALSE ]_vars

\* C28 witness: addFund was just called with a selected fund while a keyword was
\* typed and the dropdown was shown; all three are as they were.
C28_Witness ==
    /\ addResult = Some("ignored")
    /\ Len(selectedFunds) = 1
    /\ searchKeyword = "k"
    /\ showDropdown

------------------------------------------------------------------------------
(* What a change of the visible columns leaves alone *)

\* C29: a step of toggleColumn, selectAll or resetToDefault changes visibleColumns
\* and its stored copy only: page, sort column, sort direction, keyword and strategy
\* filter are as before, the key of the funds query is as before (on the Search page
\* and on the Dashboard), and no request is sent.
C29_ColumnsChangeOnly ==
    [][ (columnOp' # columnOp \/ visibleColumns' # visibleColumns) =>
          /\ UNCHANGED <<page, sortBy, sortOrder, keyword, strategyId>>
          /\ UNCHANGED <<selectedStrategy, selectedReportDate>>
          /\ QueryKey' = QueryKey
          /\ DashboardQueries(selectedReportDate', selectedStrategy', page', sortBy', sortOrder')
               = DashboardQueries(selectedReportDate, selectedStrategy, page, sortBy, sortOrder)
          /\ fetched' = None
          /\ observed' = {}
          /\ cache' = cache
          /\ UNCHANGED <<storeVars, apiVars, queryVars>> ]_vars

\* C29 witness: the column sorted ascending was hidden after the sort, with its
\* result loaded, and the sort is as it was.
C29_Witness ==
    /\ columnOp = Some([ op |-> "toggleColumn", key |-> "annual_sharpe" ])
    /\ "annual_sharpe" \notin Range(visibleColumns)
    /\ sortBy = "annual_sharpe"
    /\ sortOrder = "asc"
    /\ DataLoaded
    /\ fetched = None

------------------------------------------------------------------------------
(* The radar values against the axes *)

\* C30: every value plotted on the radar chart lies between 0 and the max of its
\* axis (annual return 1, Sharpe 5, cumulative return 2, max drawdown 0.5,
\* volatility 0.5; here in tenths), for every fund and every metric value.
C30_WithinAxisMax ==
    (radarOption # None /\ radarOption[1] # None) =>
        \A i \in DOMAIN radarOption[1][1].series :
            \A k \in DOMAIN radarOption[1][1].indicator :
                /\ radarOption[1][1].series[i].value[k] >= 0
                /\ radarOption[1][1].series[i].value[k] <= radarOption[1][1].indicator[k].max

====
